---- MODULE Spec2Model ----
(***************************************************************************)
(* Model of alertmanager-webhook-servicenow (src/main.go): the /webhook    *)
(* handler, the sequential incident creation loop, the alert -> incident   *)
(* mapping and the JSON response, with several requests handled            *)
(* concurrently by the HTTP server.                                        *)
(***************************************************************************)
EXTENDS Integers, Sequences, FiniteSets, TLC

VARIABLES
    mainpc,      \* position of main(): "start", "configured", "listening", "fatal"
    config,      \* package variable config
    serviceNow,  \* package variable serviceNow
    pc,          \* pc[r]: position of the handler goroutine of request r
    body,        \* body[r]: the request body as posted
    data,        \* data[r]: local variable data of webhook (template.Data)
    idx,         \* idx[r]: position of the range loop of manageIncidents
    err,         \* err[r]: local variable err of webhook
    sent,        \* sent[r]: incidents passed to serviceNow.CreateIncident by r
    outcomes,    \* outcomes[r]: errors returned by those calls (Nil = success)
    resp,        \* resp[r]: responses written to the ResponseWriter of r
    hist,        \* hist[r]: request states passed through so far
    mapIn,       \* argument of the alertToIncident calls of MapperSpec
    mapOut       \* results of those calls, in call order

vars == <<mainpc, config, serviceNow, pc, body, data, idx, err, sent,
          outcomes, resp, hist, mapIn, mapOut>>

reqVars == <<pc, body, data, idx, err, sent, outcomes, resp, hist>>
mapVars == <<mapIn, mapOut>>
globals == <<mainpc, config, serviceNow>>

----------------------------------------------------------------------------
(* Bounds *)

NumReqs == 2
MaxAlerts == 2
MaxVals == 2

Reqs == 1..NumReqs

----------------------------------------------------------------------------
(* net/http status codes used by webhook *)

StatusOK == 200
StatusBadRequest == 400
StatusInternalServerError == 500

----------------------------------------------------------------------------
(* Errors: a Go error value is nil or carries a message. *)

Nil == [kind |-> "nil", msg |-> ""]

SnErrors ==
    { [kind |-> "servicenow", msg |-> "E1"],
      [kind |-> "servicenow", msg |-> "E2"] }

Error(e) == e.msg

----------------------------------------------------------------------------
(* Go maps: a set of <<key, value>> pairs; indexing an absent key yields   *)
(* the zero value "".                                                      *)

HasKey(m, k) == \E p \in m : p[1] = k

Index(m, k) == IF HasKey(m, k) THEN (CHOOSE p \in m : p[1] = k)[2] ELSE ""

----------------------------------------------------------------------------
(* alertToIncident *)

alertToIncident_swapped(alert) ==
    [ AssignmentGroup  |-> Index(alert.Labels, "assignment_group"),
      ContactType      |-> "Monitoring System",
      CallerID         |-> "Prometheus",
      Description      |-> Index(alert.Annotations, "summary"),
      Impact           |-> "4",
      ShortDescription |-> Index(alert.Annotations, "description"),
      Urgency          |-> "3" ]

alertToIncident(alert) ==
    [ AssignmentGroup  |-> Index(alert.Labels, "assignment_group"),
      ContactType      |-> "Monitoring System",
      CallerID         |-> "Prometheus",
      Description      |-> Index(alert.Annotations, "description"),
      Impact           |-> "4",
      ShortDescription |-> Index(alert.Annotations, "summary"),
      Urgency          |-> "3" ]

----------------------------------------------------------------------------
(* sendJSONResponse: the status line and the marshalled JSONResponse *)

sendJSONResponse_noHeader(status, message) ==
    [ code |-> StatusOK,
      json |-> [Status |-> status, Message |-> message] ]

sendJSONResponse(status, message) ==
    [ code |-> status,
      json |-> [Status |-> status, Message |-> message] ]

----------------------------------------------------------------------------
(* Request bodies and readRequestBody *)

Tag(i) == ToString(i)

AlertAt(i) ==
    CASE i % 4 = 1 ->
           [ Labels      |-> {<<"assignment_group", "G" \o Tag(i)>>},
             Annotations |-> {<<"description", "D" \o Tag(i)>>,
                              <<"summary", "S" \o Tag(i)>>} ]
      [] i % 4 = 2 ->
           [ Labels      |-> {<<"assignment_group", "G" \o Tag(i)>>,
                              <<"severity", "critical">>},
             Annotations |-> {} ]
      [] i % 4 = 3 ->
           [ Labels      |-> {},
             Annotations |-> {<<"summary", "S" \o Tag(i)>>} ]
      [] OTHER ->
           [ Labels      |-> {},
             Annotations |-> {<<"description", "D" \o Tag(i)>>} ]

Batches == { [j \in 1..n |-> AlertAt(j)] : n \in 0..MaxAlerts }

EmptyData == [Alerts |-> <<>>]

Bodies ==
    { [kind |-> "json", alerts |-> b] : b \in Batches }
    \cup { [kind |-> k, alerts |-> <<>>] : k \in {"empty", "syntax", "type"} }

NoBody == [kind |-> "none", alerts |-> <<>>]

DecodeError(b) ==
    CASE b.kind = "empty"  -> [kind |-> "decode", msg |-> "EOF"]
      [] b.kind = "syntax" -> [kind |-> "decode",
                               msg |-> "invalid character 'x' looking for beginning of value"]
      [] b.kind = "type"   -> [kind |-> "decode",
                               msg |-> "json: cannot unmarshal string into Go struct field Data.alerts"]
      [] OTHER             -> Nil

readRequestBody(b) ==
    IF b.kind = "json"
    THEN [data |-> [Alerts |-> b.alerts], err |-> Nil]
    ELSE [data |-> EmptyData, err |-> DecodeError(b)]

----------------------------------------------------------------------------
(* Pieces of webhook and manageIncidents *)

\* state of the handler after the decode-error branch of webhook
afterDecodeError_noReturn == "decoded"

afterDecodeError == "done"

\* the alert of iteration i of "for _, alert := range data.Alerts"
rangeAlert_reversed(d, i) == d.Alerts[Len(d.Alerts) + 1 - i]

rangeAlert(d, i) == d.Alerts[i]

\* the handler blocks in serviceNow.CreateIncident until it returns
duringCreateIncident_async(i) == [pc |-> "decoded", idx |-> i + 1]

duringCreateIncident(i) == [pc |-> "calling", idx |-> i]

\* after CreateIncident returned e for the alert at position i
afterCreateIncident_continue(e, i) ==
    [pc |-> "decoded", idx |-> i + 1, err |-> Nil]

afterCreateIncident(e, i) ==
    IF e # Nil
    THEN [pc |-> "returned", idx |-> i, err |-> e]
    ELSE [pc |-> "decoded", idx |-> i + 1, err |-> Nil]

\* the value of webhook's local err that the reply of request r is built from
errOf_shared(r) ==
    IF \E q \in Reqs : err[q] # Nil
    THEN err[CHOOSE q \in Reqs : err[q] # Nil]
    ELSE err[r]

errOf(r) == err[r]

\* the responses webhook writes once manageIncidents returned e
webhookReply_fixedMessage(e) ==
    IF e # Nil
    THEN <<sendJSONResponse(StatusInternalServerError, "Internal Server Error")>>
    ELSE <<sendJSONResponse(StatusOK, "Success")>>

webhookReply_alwaysOK(e) == <<sendJSONResponse(StatusOK, "Success")>>

webhookReply_noReturn(e) ==
    IF e # Nil
    THEN <<sendJSONResponse(StatusInternalServerError, Error(e)),
           sendJSONResponse(StatusOK, "Success")>>
    ELSE <<sendJSONResponse(StatusOK, "Success")>>

webhookReply(e) ==
    IF e # Nil
    THEN <<sendJSONResponse(StatusInternalServerError, Error(e))>>
    ELSE <<sendJSONResponse(StatusOK, "Success")>>

----------------------------------------------------------------------------
(* Initial state *)

NoAlert == [Labels |-> {}, Annotations |-> {}]

LoadedConfig == [InstanceName |-> "dev", UserName |-> "user", Password |-> "secret"]
ZeroConfig == [InstanceName |-> "", UserName |-> "", Password |-> ""]

\* the nil interface value, and the client built from the configuration
NilClient == [nil |-> TRUE, instance |-> "", user |-> ""]

NewServiceNowClient(c) ==
    [nil |-> FALSE, instance |-> c.InstanceName, user |-> c.UserName]

InitMain ==
    /\ mainpc = "start"
    /\ config = ZeroConfig
    /\ serviceNow = NilClient
    /\ pc = [r \in Reqs |-> "idle"]
    /\ body = [r \in Reqs |-> NoBody]
    /\ data = [r \in Reqs |-> EmptyData]
    /\ idx = [r \in Reqs |-> 1]
    /\ err = [r \in Reqs |-> Nil]
    /\ sent = [r \in Reqs |-> <<>>]
    /\ outcomes = [r \in Reqs |-> <<>>]
    /\ resp = [r \in Reqs |-> <<>>]
    /\ hist = [r \in Reqs |-> <<>>]

Init ==
    /\ InitMain
    /\ mapIn = NoAlert
    /\ mapOut = <<>>

----------------------------------------------------------------------------
(* main *)

LoadConfig ==
    /\ mainpc = "start"
    /\ \/ /\ config' = LoadedConfig
          /\ mainpc' = "configured"
       \/ /\ mainpc' = "fatal"
          /\ UNCHANGED config
    /\ UNCHANGED <<serviceNow, reqVars, mapVars>>

CreateSnClient ==
    /\ mainpc = "configured"
    /\ \/ /\ serviceNow' = NewServiceNowClient(config)
          /\ mainpc' = "listening"
       \/ /\ mainpc' = "fatal"
          /\ UNCHANGED serviceNow
    /\ UNCHANGED <<config, reqVars, mapVars>>

----------------------------------------------------------------------------
(* webhook, one goroutine per request *)

Receive(r) ==
    /\ mainpc = "listening"
    /\ pc[r] = "idle"
    /\ \E b \in Bodies : body' = [body EXCEPT ![r] = b]
    /\ pc' = [pc EXCEPT ![r] = "reading"]
    /\ hist' = [hist EXCEPT ![r] = <<"received">>]
    /\ UNCHANGED <<globals, data, idx, err, sent, outcomes, resp, mapVars>>

ReadRequestBody(r) ==
    /\ pc[r] = "reading"
    /\ LET d == readRequestBody(body[r]) IN
       /\ data' = [data EXCEPT ![r] = d.data]
       /\ err' = [err EXCEPT ![r] = d.err]
       /\ IF d.err # Nil
          THEN /\ resp' = [resp EXCEPT ![r] =
                     Append(@, sendJSONResponse(StatusBadRequest, Error(d.err)))]
               /\ pc' = [pc EXCEPT ![r] = afterDecodeError]
               /\ hist' = [hist EXCEPT ![r] = Append(@, "responded")]
          ELSE /\ pc' = [pc EXCEPT ![r] = "decoded"]
               /\ hist' = [hist EXCEPT ![r] = Append(@, "decoded")]
               /\ UNCHANGED resp
    /\ UNCHANGED <<globals, body, idx, sent, outcomes, mapVars>>

CallCreateIncident(r) ==
    /\ pc[r] = "decoded"
    /\ idx[r] <= Len(data[r].Alerts)
    /\ LET incident == alertToIncident(rangeAlert(data[r], idx[r]))
           s == duringCreateIncident(idx[r]) IN
       /\ sent' = [sent EXCEPT ![r] = Append(@, incident)]
       /\ pc' = [pc EXCEPT ![r] = s.pc]
       /\ idx' = [idx EXCEPT ![r] = s.idx]
    /\ UNCHANGED <<globals, body, data, err, outcomes, resp, hist, mapVars>>

CreateIncidentReturn(r) ==
    /\ pc[r] = "calling"
    /\ \E e \in {Nil} \cup SnErrors :
         LET s == afterCreateIncident(e, idx[r]) IN
         /\ outcomes' = [outcomes EXCEPT ![r] = Append(@, e)]
         /\ pc' = [pc EXCEPT ![r] = s.pc]
         /\ idx' = [idx EXCEPT ![r] = s.idx]
         /\ err' = [err EXCEPT ![r] = s.err]
         /\ hist' = [hist EXCEPT ![r] =
                IF s.pc = "returned" THEN Append(@, "processed") ELSE @]
    /\ UNCHANGED <<globals, body, data, sent, resp, mapVars>>

ManageIncidentsReturn(r) ==
    /\ pc[r] = "decoded"
    /\ idx[r] > Len(data[r].Alerts)
    /\ err' = [err EXCEPT ![r] = Nil]
    /\ pc' = [pc EXCEPT ![r] = "returned"]
    /\ hist' = [hist EXCEPT ![r] = Append(@, "processed")]
    /\ UNCHANGED <<globals, body, data, idx, sent, outcomes, resp, mapVars>>

Respond(r) ==
    /\ pc[r] = "returned"
    /\ resp' = [resp EXCEPT ![r] = @ \o webhookReply(errOf(r))]
    /\ pc' = [pc EXCEPT ![r] = "done"]
    /\ hist' = [hist EXCEPT ![r] = Append(@, "responded")]
    /\ UNCHANGED <<globals, body, data, idx, err, sent, outcomes, mapVars>>

Handler(r) ==
    \/ ReadRequestBody(r)
    \/ CallCreateIncident(r)
    \/ CreateIncidentReturn(r)
    \/ ManageIncidentsReturn(r)
    \/ Respond(r)

Next ==
    \/ LoadConfig
    \/ CreateSnClient
    \/ \E r \in Reqs : Receive(r)
    \/ \E r \in Reqs : ReadRequestBody(r)
    \/ \E r \in Reqs : CallCreateIncident(r)
    \/ \E r \in Reqs : CreateIncidentReturn(r)
    \/ \E r \in Reqs : ManageIncidentsReturn(r)
    \/ \E r \in Reqs : Respond(r)

Spec == Init /\ [][Next]_vars

\* every started blocking operation of a handler returns and the goroutine runs on
FairSpec == Spec /\ \A r \in Reqs : WF_vars(Handler(r))

----------------------------------------------------------------------------
(* The mapper on its own: alertToIncident applied twice to one alert *)

MapVals == {""} \cup { "v" \o ToString(i) : i \in 1..MaxVals }

OptEntry(k) == {{}} \cup { {<<k, v>>} : v \in MapVals }

MapperAlerts ==
    { [Labels |-> g \cup x, Annotations |-> d \cup s] :
        g \in OptEntry("assignment_group"),
        x \in {{}, {<<"alertname", "InstanceDown">>}},
        d \in OptEntry("description"),
        s \in OptEntry("summary") }

MapperInit ==
    /\ InitMain
    /\ mapIn \in MapperAlerts
    /\ mapOut = <<>>

MapperCall ==
    /\ Len(mapOut) < 2
    /\ mapOut' = Append(mapOut, alertToIncident(mapIn))
    /\ UNCHANGED <<globals, reqVars, mapIn>>

MapperNext == MapperCall

MapperSpec == MapperInit /\ [][MapperNext]_vars

----------------------------------------------------------------------------
(* Type invariant *)

Messages == {"Success"} \cup { e.msg : e \in SnErrors }
              \cup { DecodeError(b).msg : b \in Bodies }

TypeOK ==
    /\ mainpc \in {"start", "configured", "listening", "fatal"}
    /\ config \in {ZeroConfig, LoadedConfig}
    /\ serviceNow \in {NilClient, NewServiceNowClient(LoadedConfig)}
    /\ (\E r \in Reqs : pc[r] # "idle") => ~ serviceNow.nil
    /\ \A r \in Reqs :
         /\ pc[r] \in {"idle", "reading", "decoded", "calling", "returned", "done"}
         /\ body[r] \in Bodies \cup {NoBody}
         /\ idx[r] \in 1..(MaxAlerts + 1)
         /\ Len(sent[r]) <= MaxAlerts
         /\ Len(outcomes[r]) <= MaxAlerts
         /\ \A i \in 1..Len(resp[r]) : resp[r][i].json.Message \in Messages

----------------------------------------------------------------------------
(* Vocabulary of the properties *)

\* the decode of the body of r failed
DecodeFailed(r) == body[r].kind \in {"empty", "syntax", "type"}

\* the body of r decoded into a batch
DecodeOK(r) == body[r].kind = "json"

\* manageIncidents was invoked for r and has returned
Returned(r) == DecodeOK(r) /\ pc[r] \in {"returned", "done"}

\* position of the first failed CreateIncident call of r, 0 if none failed
FirstFailure(r) ==
    IF \E k \in 1..Len(outcomes[r]) : outcomes[r][k] # Nil
    THEN CHOOSE k \in 1..Len(outcomes[r]) :
           /\ outcomes[r][k] # Nil
           /\ \A j \in 1..(k - 1) : outcomes[r][j] = Nil
    ELSE 0

AllSucceeded(r) == \A k \in 1..Len(outcomes[r]) : outcomes[r][k] = Nil

\* the value a ticket field takes from a map of an alert
FieldFrom(m, k, v) ==
    /\ \A p \in m : p[1] = k => v = p[2]
    /\ (~ \E p \in m : p[1] = k) => v = ""

\* the ticket t is the one the mapping table prescribes for alert a
TicketOf(a, t) ==
    /\ DOMAIN t = {"AssignmentGroup", "ContactType", "CallerID", "Description",
                   "Impact", "ShortDescription", "Urgency"}
    /\ FieldFrom(a.Labels, "assignment_group", t.AssignmentGroup)
    /\ FieldFrom(a.Annotations, "description", t.Description)
    /\ FieldFrom(a.Annotations, "summary", t.ShortDescription)
    /\ t.ContactType = "Monitoring System"
    /\ t.CallerID = "Prometheus"
    /\ t.Impact = "4"
    /\ t.Urgency = "3"

Reply(c, m) == [code |-> c, json |-> [Status |-> c, Message |-> m]]

----------------------------------------------------------------------------
(* C1: fail-fast.  If the CreateIncident call for the alert at position k  *)
(* fails after all earlier ones succeeded, manageIncidents has returned    *)
(* exactly that error, exactly k calls were made, and no call exists for   *)
(* any later alert, in this and every later state.                         *)

C1_FailFast ==
    \A r \in Reqs : \A k \in 1..Len(outcomes[r]) :
        outcomes[r][k] # Nil =>
            /\ \A j \in 1..(k - 1) : outcomes[r][j] = Nil
            /\ Len(outcomes[r]) = k
            /\ Len(sent[r]) = k
            /\ pc[r] \in {"returned", "done"}
            /\ err[r] = outcomes[r][k]

C1_Witness ==
    \E r \in Reqs :
        /\ pc[r] = "done"
        /\ Len(body[r].alerts) = 2
        /\ Len(outcomes[r]) = 1
        /\ outcomes[r][1] # Nil
        /\ Len(sent[r]) = 1

----------------------------------------------------------------------------
(* C2: full success.  When manageIncidents has returned and every          *)
(* CreateIncident call succeeded, it returned nil and the client received  *)
(* exactly one call per alert, the i-th carrying alertToIncident of the    *)
(* i-th alert of the batch (also for the batch with no alerts).            *)

C2_FullSuccess ==
    \A r \in Reqs :
        (Returned(r) /\ AllSucceeded(r)) =>
            /\ err[r] = Nil
            /\ Len(sent[r]) = Len(body[r].alerts)
            /\ Len(outcomes[r]) = Len(body[r].alerts)
            /\ \A i \in 1..Len(body[r].alerts) :
                 /\ TicketOf(body[r].alerts[i], sent[r][i])
                 /\ Cardinality({ j \in 1..Len(sent[r]) :
                        TicketOf(body[r].alerts[i], sent[r][j]) }) = 1

C2_Witness ==
    \E r \in Reqs :
        /\ Returned(r)
        /\ AllSucceeded(r)
        /\ Len(body[r].alerts) = 2
        /\ Len(sent[r]) = 2

----------------------------------------------------------------------------
(* C3: decode failure.  Once readRequestBody has returned an error for a   *)
(* request, the request is answered with 400 and the decode error's        *)
(* message, manageIncidents is never entered and CreateIncident is never   *)
(* called for it.                                                          *)

C3_DecodeFailure ==
    \A r \in Reqs :
        (DecodeFailed(r) /\ pc[r] # "reading") =>
            /\ pc[r] = "done"
            /\ resp[r] = <<Reply(400, DecodeError(body[r]).msg)>>
            /\ sent[r] = <<>>
            /\ outcomes[r] = <<>>
            /\ hist[r] = <<"received", "responded">>

C3_Witness ==
    \E r \in Reqs :
        /\ body[r].kind = "syntax"
        /\ pc[r] = "done"
        /\ Len(resp[r]) = 1

----------------------------------------------------------------------------
(* C4: submission failure.  A decoded request one of whose CreateIncident  *)
(* calls failed is answered with 500 and, as message, the unmodified text  *)
(* of the first failed call's error.                                       *)

C4_SubmissionFailure ==
    \A r \in Reqs :
        (pc[r] = "done" /\ DecodeOK(r) /\ ~ AllSucceeded(r)) =>
            resp[r] = <<Reply(500, outcomes[r][FirstFailure(r)].msg)>>

C4_Witness ==
    \E r \in Reqs :
        /\ pc[r] = "done"
        /\ Len(outcomes[r]) = 2
        /\ outcomes[r][2].msg = "E2"

----------------------------------------------------------------------------
(* C5: success response.  An answered request got 200 "Success" if and     *)
(* only if its body decoded and a CreateIncident call succeeded for every  *)
(* one of its alerts; a batch with the single alert                        *)
(* {assignment_group: G1, description: D1, summary: S1} then produced      *)
(* exactly the ticket of the mapping table.                                *)

C5_SuccessResponse ==
    \A r \in Reqs :
        pc[r] = "done" =>
            /\ (\E i \in 1..Len(resp[r]) : resp[r][i] = Reply(200, "Success"))
                 <=> ( /\ DecodeOK(r)
                       /\ Len(outcomes[r]) = Len(body[r].alerts)
                       /\ AllSucceeded(r) )
            /\ ( /\ body[r] = [kind |-> "json", alerts |->
                       << [ Labels |-> {<<"assignment_group", "G1">>},
                            Annotations |-> {<<"description", "D1">>,
                                             <<"summary", "S1">>} ] >>]
                 /\ AllSucceeded(r) )
               => /\ sent[r] = << [ AssignmentGroup  |-> "G1",
                                    ContactType      |-> "Monitoring System",
                                    CallerID         |-> "Prometheus",
                                    Description      |-> "D1",
                                    Impact           |-> "4",
                                    ShortDescription |-> "S1",
                                    Urgency          |-> "3" ] >>
                  /\ resp[r] = <<Reply(200, "Success")>>

C5_Witness ==
    \E r \in Reqs :
        /\ pc[r] = "done"
        /\ Len(body[r].alerts) = 1
        /\ DecodeOK(r)
        /\ outcomes[r] = <<Nil>>
        /\ resp[r] = <<Reply(200, "Success")>>

----------------------------------------------------------------------------
(* C6: alertToIncident is total.  Every call returns a ticket with exactly *)
(* the seven fields; the three alert-derived fields hold the value of      *)
(* their key, or "" when the key is absent, the four others their          *)
(* constants; two calls on one alert return equal tickets.                 *)

C6_MapperTotal ==
    /\ \A i \in 1..Len(mapOut) : TicketOf(mapIn, mapOut[i])
    /\ Len(mapOut) = 2 => mapOut[1] = mapOut[2]

C6_Witness ==
    /\ Len(mapOut) = 2
    /\ mapIn.Labels = {}
    /\ mapIn.Annotations = {<<"description", "v1">>}

----------------------------------------------------------------------------
(* C7: sequential processing.  In every interleaving a request has at most *)
(* one CreateIncident call outstanding, and a call after the first exists  *)
(* only when the previous call of that request returned without error.     *)

C7_Sequential ==
    \A r \in Reqs :
        /\ Len(sent[r]) - Len(outcomes[r]) \in {0, 1}
        /\ \A i \in 2..Len(sent[r]) :
             /\ i - 1 <= Len(outcomes[r])
             /\ outcomes[r][i - 1] = Nil

C7_Witness ==
    \E r \in Reqs : \E q \in Reqs \ {r} :
        /\ pc[r] = "calling"
        /\ pc[q] = "calling"
        /\ Len(sent[r]) = 2
        /\ Len(outcomes[r]) = 1

----------------------------------------------------------------------------
(* C8: isolation.  Once main listens, no step writes config or serviceNow; *)
(* a step changes the state of at most one request; and the tickets a      *)
(* request has submitted and the response it got are a function of its own *)
(* body and of the outcomes of its own calls.                              *)

ReqState(r) ==
    <<pc[r], body[r], data[r], idx[r], err[r], sent[r], outcomes[r], resp[r], hist[r]>>

OwnSent(r) ==
    /\ Len(sent[r]) <= Len(body[r].alerts)
    /\ \A i \in 1..Len(sent[r]) : TicketOf(body[r].alerts[i], sent[r][i])

OwnResponse(r) ==
    pc[r] = "done" =>
        resp[r] = IF DecodeFailed(r)
                  THEN <<Reply(400, DecodeError(body[r]).msg)>>
                  ELSE IF AllSucceeded(r)
                       THEN <<Reply(200, "Success")>>
                       ELSE <<Reply(500, outcomes[r][FirstFailure(r)].msg)>>

C8_Isolation ==
    /\ [](\A r \in Reqs : OwnSent(r) /\ OwnResponse(r))
    /\ [][mainpc = "listening" => UNCHANGED <<mainpc, config, serviceNow>>]_vars
    /\ [][\A r \in Reqs : \A q \in Reqs \ {r} :
            ReqState(r)' # ReqState(r) => ReqState(q)' = ReqState(q)]_vars

C8_Witness ==
    \E r \in Reqs : \E q \in Reqs \ {r} :
        /\ pc[r] = "done"
        /\ resp[r] = <<Reply(200, "Success")>>
        /\ Len(sent[r]) = 2
        /\ ~ AllSucceeded(q)
        /\ pc[q] \in {"returned", "done"}

----------------------------------------------------------------------------
(* C9: response consistency.  In every response written, the Status of    *)
(* the JSON body equals the code of the status line, which is 200, 400 or  *)
(* 500.                                                                    *)

C9_ResponseConsistency ==
    \A r \in Reqs : \A i \in 1..Len(resp[r]) :
        /\ resp[r][i].json.Status = resp[r][i].code
        /\ resp[r][i].code \in {200, 400, 500}

C9_Witness ==
    \E r \in Reqs : \E q \in Reqs \ {r} :
        /\ Len(resp[r]) = 1 /\ resp[r][1].code = 400
        /\ Len(resp[q]) = 1 /\ resp[q][1].code = 500

----------------------------------------------------------------------------
(* C10: exactly one response.  When every started body read and            *)
(* CreateIncident call returns, a received request is eventually           *)
(* responded; it passes through received, decoded, processed, responded    *)
(* in that order, or received, responded on a decode failure; and exactly  *)
(* one response is written for it, none before it is responded.  As a      *)
(* request never leaves the responded state, "every received request is    *)
(* eventually responded" is stated as: from some point on no request is    *)
(* between received and responded.                                         *)

FullPath == <<"received", "decoded", "processed", "responded">>
ShortPath == <<"received", "responded">>

IsPrefix(s, t) == Len(s) <= Len(t) /\ \A i \in 1..Len(s) : s[i] = t[i]

OneResponse(r) ==
    /\ pc[r] = "done" => (Len(resp[r]) = 1 /\ hist[r] \in {FullPath, ShortPath})
    /\ pc[r] # "done" => (resp[r] = <<>> /\ IsPrefix(hist[r], FullPath))
    /\ hist[r] = ShortPath <=> (pc[r] = "done" /\ DecodeFailed(r))

\* request r is received and not yet responded
InFlight(r) == pc[r] \in {"reading", "decoded", "calling", "returned"}

C10_ExactlyOneResponse ==
    /\ <>[](\A r \in Reqs : ~ InFlight(r))
    /\ [][\A r \in Reqs : pc[r] = "done" => pc'[r] = "done"]_vars
    /\ [](\A r \in Reqs : OneResponse(r))

C10_Witness ==
    \E r \in Reqs : \E q \in Reqs \ {r} :
        /\ pc[r] = "done" /\ hist[r] = FullPath /\ ~ AllSucceeded(r)
        /\ pc[q] = "done" /\ hist[q] = ShortPath

====
